---- MODULE Spec2Model ----
(***************************************************************************)
(* Model of the `sessions` service of graph-sessions: the transport        *)
(* handler (route_handlers.rs), the Open Policy Agent client (opa.rs) and  *)
(* the GraphQL resolvers (graphql.rs).                                     *)
(*                                                                         *)
(* Strings that the code inspects character by character (the              *)
(* Authorization header, the stored proposal number) are sequences of      *)
(* one-character strings.  Optional values are records with a `some`       *)
(* flag.  GraphQL response values are tagged records (JNull, JInt, ...).   *)
(***************************************************************************)
EXTENDS Integers, Sequences, FiniteSets, TLC

VARIABLES
    pc,        \* pc[r]: "idle" | "executing" | "responded" (the task of request r)
    header,    \* header[r]: the Authorization header of request r (Option of chars)
    ctx,       \* ctx[r]: the per-request data attached by GraphQLHandler::call
    fields,    \* fields[r]: the `session` field resolutions of request r
    sent,      \* the last HTTP response sent, with the task that produced it
    started,   \* the units of work begun so far
    mapRow,    \* input of the row-mapping specification: a (session, proposal) row
    mapOut,    \* output of the row-mapping specification: the resolved value
    opaResp,   \* input of the decide specification: the policy endpoint's answer
    opaOut     \* output of the decide specification: what decide returned

vars == <<pc, header, ctx, fields, sent, started, mapRow, mapOut, opaResp, opaOut>>

----------------------------------------------------------------------------
(* Bounds of the model *)

NumRequests == 2       \* HTTP requests (concurrent tasks)
MaxFields == 2         \* `session` fields in one GraphQL request
MaxWork == 2           \* units of work over all requests: a `session`
                       \* resolution, or the rejection of a request

Requests == 1..NumRequests

----------------------------------------------------------------------------
(* Optional values and results *)

None == [some |-> FALSE]
Some(x) == [some |-> TRUE, v |-> x]

Ok(x) == [ok |-> TRUE, val |-> x]
Err(m) == [ok |-> FALSE, err |-> m]

(* GraphQL response values *)
JNull == [t |-> "null"]
JInt(n) == [t |-> "int", v |-> n]
JStr(s) == [t |-> "string", v |-> s]
JObj(f) == [t |-> "object", v |-> f]

----------------------------------------------------------------------------
(* Characters *)

Digits == {"0", "1", "2", "3", "4", "5", "6", "7", "8", "9"}

DigitVal(c) ==
    CASE c = "0" -> 0 [] c = "1" -> 1 [] c = "2" -> 2 [] c = "3" -> 3
      [] c = "4" -> 4 [] c = "5" -> 5 [] c = "6" -> 6 [] c = "7" -> 7
      [] c = "8" -> 8 [] c = "9" -> 9

\* ASCII lower-casing of the letters that occur in the model's headers
Lower(c) ==
    CASE c = "B" -> "b" [] c = "E" -> "e" [] c = "A" -> "a" [] c = "R" -> "r"
      [] c = "S" -> "s" [] c = "I" -> "i" [] c = "C" -> "c"
      [] OTHER -> c

\* a byte outside visible ASCII (HeaderValue::to_str rejects it)
NonAscii == "\\x80"

\* u32::MAX, 4294967295, as decimal digits
U32MaxDigits == <<"4", "2", "9", "4", "9", "6", "7", "2", "9", "5">>

RECURSIVE StripZeros(_)
StripZeros(s) ==
    IF Len(s) > 1 /\ s[1] = "0" THEN StripZeros(Tail(s)) ELSE s

\* a > b for digit sequences of the same length
RECURSIVE DigitsGreater(_, _)
DigitsGreater(a, b) ==
    IF Len(a) = 0 THEN FALSE
    ELSE IF a[1] # b[1] THEN DigitVal(a[1]) > DigitVal(b[1])
    ELSE DigitsGreater(Tail(a), Tail(b))

\* the number written by the digits s does not fit a u32
ExceedsU32(s) ==
    LET d == StripZeros(s)
    IN  \/ Len(d) > Len(U32MaxDigits)
        \/ Len(d) = Len(U32MaxDigits) /\ DigitsGreater(d, U32MaxDigits)

RECURSIVE DecimalValue(_)
DecimalValue(s) ==
    IF Len(s) = 0 THEN 0
    ELSE 10 * DecimalValue(SubSeq(s, 1, Len(s) - 1)) + DigitVal(s[Len(s)])

----------------------------------------------------------------------------
(* Token Extractor: route_handlers.rs, GraphQLHandler::call, and the        *)
(* Authorization<Bearer> typed header it extracts                           *)

Chars(s) == {s[i] : i \in 1..Len(s)}

LowerSeq(s) == [i \in 1..Len(s) |-> Lower(s[i])]

BearerScheme == <<"b", "e", "a", "r", "e", "r">>

\* TypedHeader<Authorization<Bearer>>::decode: Ok(header) or a rejection
DecodeAuthorizationBearer(h) ==
    IF ~h.some THEN Err(<<"Header of type authorization was missing">>)
    ELSE IF /\ Len(h.v) > Len(BearerScheme)
            /\ h.v[Len(BearerScheme) + 1] = " "
            /\ LowerSeq(SubSeq(h.v, 1, Len(BearerScheme))) = BearerScheme
            /\ NonAscii \notin Chars(h.v)
         THEN Ok(h.v)
         ELSE Err(<<"invalid HTTP header (authorization)">>)

\* Variant: the raw header value is kept whatever its scheme
ExtractTokenRaw(h) == h

\* .ok().map(|token| token.0): a rejection becomes None
ExtractToken(h) ==
    LET decoded == DecodeAuthorizationBearer(h)
    IN  IF decoded.ok THEN Some(decoded.val) ELSE None

RECURSIVE TrimStart(_)
TrimStart(s) ==
    IF Len(s) > 0 /\ s[1] = " " THEN TrimStart(Tail(s)) ELSE s

\* Authorization<Bearer>::token(): the text after "Bearer "
BearerToken(auth) == TrimStart(SubSeq(auth, Len(BearerScheme) + 2, Len(auth)))

----------------------------------------------------------------------------
(* Policy Client: opa.rs *)

\* ctx.data::<T>() of a type that was never attached
DataMissing(type) == <<"Data does not exist: ", type>>

\* Variant: a request without a token is an error (ok_or in place of map)
OpaInputNewRequireToken(c, parameters) ==
    IF ~c.hasAuth THEN Err(DataMissing("Option<Authorization<Bearer>>"))
    ELSE IF ~c.auth.some THEN Err(<<"Missing bearer token">>)
    ELSE Ok([token |-> Some(BearerToken(c.auth.v)), parameters |-> parameters])

\* Variant: the token is kept process-wide, set by the oldest running request
OpaInputNewProcessWide(c, parameters) ==
    LET shared == IF ctx[1].hasAuth THEN ctx[1] ELSE c
    IN  IF ~shared.hasAuth THEN Err(DataMissing("Option<Authorization<Bearer>>"))
        ELSE Ok([token |-> IF shared.auth.some
                           THEN Some(BearerToken(shared.auth.v)) ELSE None,
                 parameters |-> parameters])

\* OpaInput::new: the token of THIS context's Authorization data
OpaInputNew(c, parameters) ==
    IF ~c.hasAuth THEN Err(DataMissing("Option<Authorization<Bearer>>"))
    ELSE Ok([token |-> IF c.auth.some THEN Some(BearerToken(c.auth.v)) ELSE None,
             parameters |-> parameters])

\* serde: the body as a Decision { allow: bool }
DeserializeDecision(body) ==
    IF /\ body.t = "object"
       /\ "allow" \in DOMAIN body.v
       /\ body.v.allow.t = "bool"
    THEN Ok([allow |-> body.v.allow.v])
    ELSE Err(<<"error decoding response body">>)

\* Variant: a failed call is taken for a Decision { allow: false }
queryDefaultDeny(resp) ==
    IF resp.kind = "sendError" THEN Ok([allow |-> FALSE])
    ELSE LET decision == DeserializeDecision(resp.body)
         IN  IF decision.ok THEN decision ELSE Ok([allow |-> FALSE])

\* Variant: a status of 400 or more is an error (error_for_status)
queryErrorForStatus(resp) ==
    IF resp.kind = "sendError" THEN Err(<<"error sending request">>)
    ELSE IF resp.status >= 400 THEN Err(<<"HTTP status error">>)
    ELSE DeserializeDecision(resp.body)

\* OpaClient::query: execute(request).await?.json().await
query(resp) ==
    IF resp.kind = "sendError" THEN Err(<<"error sending request">>)
    ELSE DeserializeDecision(resp.body)

AccessDenied == <<"Access denied">>

\* Variant: any Decision that was received counts as success
decideAnyDecision(resp) ==
    LET decision == query(resp)
    IN  IF ~decision.ok THEN Err(decision.err) ELSE Ok(<<>>)

\* OpaClient::decide: query(input).await?.allow.then_some(()).ok_or("Access denied")
decide(resp) ==
    LET decision == query(resp)
    IN  IF ~decision.ok THEN Err(decision.err)
        ELSE IF decision.val.allow THEN Ok(<<>>)
        ELSE Err(AccessDenied)

----------------------------------------------------------------------------
(* Resolver Layer: graphql.rs, the fields of Session and Proposal *)

\* str::parse::<u32>: Ok(n) or the ParseIntError's message
ParseU32(s) ==
    IF Len(s) = 0 THEN Err(<<"cannot parse integer from empty string">>)
    ELSE LET digits == IF s[1] = "+" THEN Tail(s) ELSE s
         IN  IF Len(digits) = 0 \/ ~(Chars(digits) \subseteq Digits)
             THEN Err(<<"invalid digit found in string">>)
             ELSE IF ExceedsU32(digits)
             THEN Err(<<"number too large to fit in target type">>)
             ELSE Ok(DecimalValue(digits))

\* Session::id
Session_id(s) == s.session.session_id

\* Session::visit: self.session.visit_number.unwrap_or_default()
Session_visit(s) ==
    IF s.session.visit_number.some THEN s.session.visit_number.v ELSE 0

\* Proposal::code
Proposal_code(p) == p.proposal_code

\* Proposal::number: proposal_number.as_ref().map(|num| num.parse()).transpose()?
Proposal_number(p) ==
    IF ~p.proposal_number.some THEN Ok(None)
    ELSE LET parsed == ParseU32(p.proposal_number.v)
         IN  IF parsed.ok THEN Ok(Some(parsed.val)) ELSE Err(parsed.err)

\* Variant: Proposal::number declared Result<u32>, a non-null field
NullableFieldNumberNonNull(type, name) ==
    CASE type = "Query" /\ name = "session" -> TRUE
      [] type = "Session" /\ name = "id" -> FALSE
      [] type = "Session" /\ name = "visit" -> FALSE
      [] type = "Session" /\ name = "proposal" -> TRUE
      [] type = "Proposal" /\ name = "code" -> TRUE
      [] type = "Proposal" /\ name = "number" -> FALSE

\* The GraphQL output types that the Rust return types declare:
\* u32 is Int!, Option<T> and Result<Option<T>> are nullable
NullableField(type, name) ==
    CASE type = "Query" /\ name = "session" -> TRUE       \* Result<Option<Session>>
      [] type = "Session" /\ name = "id" -> FALSE         \* u32
      [] type = "Session" /\ name = "visit" -> FALSE      \* u32
      [] type = "Session" /\ name = "proposal" -> TRUE    \* Option<Proposal>
      [] type = "Proposal" /\ name = "code" -> TRUE       \* &Option<String>
      [] type = "Proposal" /\ name = "number" -> TRUE     \* Result<Option<u32>>

\* Output conversion of the optional scalars
OutInt(o) == IF o.some THEN JInt(o.v) ELSE JNull
OutStr(o) == IF o.some THEN JStr(o.v) ELSE JNull

\* A resolved field: its value, the errors raised under it, and whether a
\* null must propagate to the parent (an error in a non-null field)
Leaf(res, type, name, alias, path) ==
    IF res.ok
    THEN [value |-> res.val, errors |-> {}, bubble |-> FALSE]
    ELSE [value |-> JNull,
          errors |-> {[message |-> res.err, field |-> alias, path |-> path]},
          bubble |-> ~NullableField(type, name)]

\* An object: null as a whole when one of its fields propagates a null
ObjectOut(outs) ==
    LET errs == UNION {outs[n].errors : n \in DOMAIN outs}
    IN  IF \E n \in DOMAIN outs : outs[n].bubble
        THEN [value |-> JNull, errors |-> errs, bubble |-> TRUE]
        ELSE [value |-> JObj([n \in DOMAIN outs |-> outs[n].value]),
              errors |-> errs, bubble |-> FALSE]

\* A field holding an object: a nullable field stops the propagation
Hold(out, type, name) ==
    IF out.bubble THEN [out EXCEPT !.bubble = ~NullableField(type, name)] ELSE out

NullOut == [value |-> JNull, errors |-> {}, bubble |-> FALSE]

\* proposal { code number }
ResolveProposal(p, alias) ==
    LET number == Proposal_number(p)
    IN  ObjectOut(
          [code |-> Leaf(Ok(OutStr(Proposal_code(p))), "Proposal", "code",
                         alias, <<"proposal", "code">>),
           number |-> Leaf(IF number.ok THEN Ok(OutInt(number.val)) ELSE number,
                           "Proposal", "number", alias, <<"proposal", "number">>)])

\* session { id visit proposal { code number } }
ResolveSession(s, alias) ==
    ObjectOut(
      [id |-> Leaf(Ok(JInt(Session_id(s))), "Session", "id", alias, <<"id">>),
       visit |-> Leaf(Ok(JInt(Session_visit(s))), "Session", "visit",
                      alias, <<"visit">>),
       proposal |-> Hold(IF s.proposal.some
                         THEN ResolveProposal(s.proposal.v, alias)
                         ELSE NullOut,
                         "Session", "proposal")])

\* The root field: the Result<Option<Session>> of Query::session
ResolveSessionField(res, alias) ==
    IF ~res.ok THEN Leaf(res, "Query", "session", alias, <<>>)
    ELSE IF ~res.val.some THEN NullOut
    ELSE Hold(ResolveSession(res.val.v, alias), "Query", "session")

----------------------------------------------------------------------------
(* Data Accessor: the database behind graphql.rs, Query::session *)

\* MySQL compares a string column with an integer parameter as numbers:
\* the string counts as its leading digits, and as 0 when it has none
RECURSIVE DigitPrefix(_)
DigitPrefix(s) ==
    IF Len(s) > 0 /\ s[1] \in Digits THEN <<s[1]>> \o DigitPrefix(Tail(s)) ELSE <<>>

MySqlNumber(s) == DecimalValue(DigitPrefix(s))

\* WHERE visit_number = ? AND proposal_number = ?  over the LEFT JOIN of
\* find_also_related: a NULL column never equals the parameter
Matches(row, filter) ==
    /\ row.session.visit_number.some
    /\ row.session.visit_number.v = filter.visit
    /\ row.proposal.some
    /\ row.proposal.v.proposal_number.some
    /\ MySqlNumber(row.proposal.v.proposal_number.v) = filter.proposal

\* The rows of the BLSession table with their related Proposal
Table ==
    { [session |-> [session_id |-> 1, visit_number |-> Some(3)],
       proposal |-> Some([proposal_code |-> Some(<<"c", "m">>),
                          proposal_number |-> Some(<<"1", "2">>)])],
      [session |-> [session_id |-> 2, visit_number |-> Some(3)],
       proposal |-> Some([proposal_code |-> Some(<<"m", "x">>),
                          proposal_number |-> Some(<<"a", "b", "c">>)])],
      [session |-> [session_id |-> 3, visit_number |-> None],
       proposal |-> None] }

\* sea_orm::DbErr values and their Display
DbErrs ==
    { [kind |-> "Conn", detail |-> "pool timed out"],
      [kind |-> "Conn", detail |-> "connection refused"] }

DbErrDisplay(e) ==
    <<IF e.kind = "Conn" THEN "Connection Error: " ELSE "Query Error: ", e.detail>>

\* What .one(database).await can return for a filter
DbOutcomes(filter) ==
    LET found == {row \in Table : Matches(row, filter)}
    IN  {Err(DbErrDisplay(e)) : e \in DbErrs}
          \cup (IF found = {} THEN {Ok(None)} ELSE {Ok(Some(row)) : row \in found})

----------------------------------------------------------------------------
(* Resolver Layer: graphql.rs, Query::session, cut at its two awaits *)

\* The data attached to the schema by main (root_schema_builder().data(..))
SchemaData == [database |-> TRUE, opa |-> TRUE]

\* What came over the wire from the policy endpoint
Wire(resp) ==
    IF resp.kind = "sendError" THEN "sendError"
    ELSE IF resp.body.t = "object" /\ "allow" \in DOMAIN resp.body.v
            /\ resp.body.v.allow.t = "bool"
         THEN (IF resp.body.v.allow.v THEN "allowTrue" ELSE "allowFalse")
         ELSE "badBody"

\* What came back from the database
DbWire(found) ==
    IF ~found.ok THEN "error" ELSE IF found.val.some THEN "row" ELSE "empty"

Failed(f, message, alias) ==
    [f EXCEPT !.pc = "done",
              !.out = Some(ResolveSessionField(Err(message), alias))]

\* Lines 94-100 up to the await of decide: the policy request is sent
SessionBegin(c, proposal, visit, alias) ==
    LET input == OpaInputNew(c, [proposal |-> proposal, visit |-> visit])
        new == [proposal |-> proposal, visit |-> visit, pc |-> "policy",
                input |-> None, policy |-> "none", opaCalls |-> 0,
                dbCalls |-> 0, filter |-> None, db |-> "none", out |-> None]
    IN  IF ~SchemaData.database
        THEN Failed(new, DataMissing("DatabaseConnection"), alias)
        ELSE IF ~SchemaData.opa
        THEN Failed(new, DataMissing("OpaClient"), alias)
        ELSE IF ~input.ok
        THEN Failed(new, input.err, alias)
        ELSE [new EXCEPT !.input = Some(input.val), !.policy = "pending",
                         !.opaCalls = 1]

\* Variant: the result of decide is dropped (no `?` after the await)
SessionAfterDecideUnchecked(f, decided, alias) ==
    [f EXCEPT !.pc = "db",
              !.dbCalls = @ + 1,
              !.filter = Some([visit |-> f.visit, proposal |-> f.proposal])]

\* Variant: a policy call that failed in transport is made once more
SessionAfterDecideRetry(f, decided, alias) ==
    IF ~decided.ok /\ decided.err # AccessDenied /\ f.opaCalls < 2
    THEN [f EXCEPT !.policy = "pending", !.opaCalls = @ + 1]
    ELSE IF ~decided.ok
    THEN Failed(f, decided.err, alias)
    ELSE [f EXCEPT !.pc = "db",
                   !.dbCalls = @ + 1,
                   !.filter = Some([visit |-> f.visit, proposal |-> f.proposal])]

\* Variant: the filter takes the two arguments in the other order
SessionAfterDecideSwapped(f, decided, alias) ==
    IF ~decided.ok
    THEN Failed(f, decided.err, alias)
    ELSE [f EXCEPT !.pc = "db",
                   !.dbCalls = @ + 1,
                   !.filter = Some([visit |-> f.proposal, proposal |-> f.visit])]

\* Lines 100-109: decide has returned; on Ok the database query is issued
SessionAfterDecide(f, decided, alias) ==
    IF ~decided.ok
    THEN Failed(f, decided.err, alias)
    ELSE [f EXCEPT !.pc = "db",
                   !.dbCalls = @ + 1,
                   !.filter = Some([visit |-> f.visit, proposal |-> f.proposal])]

\* Variant: an empty result is reported as an error
SessionAfterQueryMustFind(f, found, alias) ==
    LET res == IF ~found.ok THEN Err(found.err)
               ELSE IF ~found.val.some THEN Err(<<"Session not found">>)
               ELSE Ok(Some([session |-> found.val.v.session,
                             proposal |-> found.val.v.proposal]))
    IN  [f EXCEPT !.pc = "done",
                  !.out = Some(ResolveSessionField(res, alias))]

\* Lines 109-113: the query has returned; the row becomes a Session
SessionAfterQuery(f, found, alias) ==
    LET res == IF ~found.ok THEN Err(found.err)
               ELSE IF ~found.val.some THEN Ok(None)
               ELSE Ok(Some([session |-> found.val.v.session,
                             proposal |-> found.val.v.proposal]))
    IN  [f EXCEPT !.pc = "done",
                  !.out = Some(ResolveSessionField(res, alias))]

----------------------------------------------------------------------------
(* Inputs of the environment *)

Str(s) == Some(s)

\* Authorization headers: absent, a bearer token, Bearer credentials that
\* are no b64token (they hold a space), another scheme, a Bearer header
\* without credentials
Headers ==
    { None,
      Str(<<"B", "e", "a", "r", "e", "r", " ", "t", "1">>),
      Str(<<"B", "e", "a", "r", "e", "r", " ", "t", " ", "2">>),
      Str(<<"B", "a", "s", "i", "c", " ", "t", "1">>),
      Str(<<"B", "e", "a", "r", "e", "r">>) }

\* The arguments of a `session` field
SessionArgs ==
    { [proposal |-> 12, visit |-> 3],
      [proposal |-> 1, visit |-> 99] }

RECURSIVE SeqsUpTo(_, _)
SeqsUpTo(S, n) ==
    IF n = 0 THEN {<<>>}
    ELSE LET shorter == SeqsUpTo(S, n - 1)
         IN  shorter \cup {Append(q, x) : q \in shorter, x \in S}

\* Request bodies: not a GraphQL request, or a query of `session` fields
Bodies ==
    {[ok |-> FALSE, query |-> <<>>]}
      \cup {[ok |-> TRUE, query |-> q] : q \in SeqsUpTo(SessionArgs, MaxFields) \ {<<>>}}

JBool(b) == [t |-> "bool", v |-> b]

\* What the policy endpoint can answer: no answer, or a status and a body
PolicyBodies ==
    { JObj([allow |-> JBool(TRUE)]),
      JObj([allow |-> JBool(FALSE)]),
      JObj([result |-> JBool(TRUE)]),
      [t |-> "text"] }

PolicyResponses ==
    {[kind |-> "sendError"]}
      \cup {[kind |-> "response", status |-> 200, body |-> b] : b \in PolicyBodies}
      \cup {[kind |-> "response", status |-> 500, body |-> JObj([allow |-> JBool(b)])] :
              b \in BOOLEAN}

\* No answer of the policy endpoint is under test
NoResponse == [kind |-> "none"]

\* Status codes a policy endpoint or a proxy before it can answer with
Statuses == {200, 201, 202, 400, 401, 403, 404, 429, 500, 502, 503}

\* Bodies, as parsed JSON: a Decision, a Decision with a member more,
\* a Decision inside another object, JSON null, no JSON at all
DecideBodies ==
    PolicyBodies
      \cup { JObj([allow |-> JBool(TRUE), reason |-> JBool(FALSE)]),
             JObj([allow |-> JBool(FALSE), reason |-> JBool(TRUE)]),
             JObj([decision |-> JObj([allow |-> JBool(TRUE)])]),
             JNull }

\* The answers decide is run on: no answer, or any status with any body
DecideResponses ==
    {[kind |-> "sendError"]}
      \cup {[kind |-> "response", status |-> st, body |-> b] :
              st \in Statuses, b \in DecideBodies}

Chars2(a, b) == Some(<<a, b>>)

\* Stored proposal numbers: absent, numeric, non-numeric, empty, signed,
\* zero-padded, one more than u32::MAX
ProposalNumbers ==
    { None, Chars2("1", "2"), Some(<<"a", "b", "c">>), Some(<<>>),
      Chars2("+", "5"), Chars2("-", "1"), Some(<<"0", "0", "7">>),
      Some(<<"4", "2", "9", "4", "9", "6", "7", "2", "9", "6">>) }

\* Rows the mapping of a (session, proposal) pair is applied to
MapRows ==
    { [session |-> [session_id |-> id, visit_number |-> visit], proposal |-> p] :
        id \in {1, 2},
        visit \in {None, Some(0), Some(3)},
        p \in {None} \cup
              {Some([proposal_code |-> code, proposal_number |-> number]) :
                 code \in {None, Chars2("c", "m")}, number \in ProposalNumbers} }

----------------------------------------------------------------------------
(* Transport Handler: route_handlers.rs, GraphQLHandler::call *)

NoCtx == [hasAuth |-> FALSE, auth |-> None]

\* request.into_inner().data(token)
RequestData(token) == [hasAuth |-> TRUE, auth |-> token]

AllDone(fs) == \A i \in 1..Len(fs) : fs[i].pc = "done"

\* GraphQLResponse::from(executor.execute(..)).into_response()
GraphQLResponse(fs) ==
    [status |-> 200,
     data |-> [i \in 1..Len(fs) |-> fs[i].out.v.value],
     errors |-> UNION {fs[i].out.v.errors : i \in 1..Len(fs)}]

\* (StatusCode::BAD_REQUEST, err.0.to_string()).into_response()
BadRequest == [status |-> 400, data |-> <<>>, errors |-> {}]

\* No response has been sent yet
NoSent ==
    [request |-> 0, header |-> None, bodyOk |-> FALSE, ctx |-> NoCtx,
     fields |-> <<>>, response |-> [status |-> 0, data |-> <<>>, errors |-> {}]]

\* The task of request r ends with a response: its locals are dropped
Respond(r, h, ok, c, fs, resp) ==
    /\ pc' = [pc EXCEPT ![r] = "responded"]
    /\ header' = [header EXCEPT ![r] = None]
    /\ ctx' = [ctx EXCEPT ![r] = NoCtx]
    /\ fields' = [fields EXCEPT ![r] = <<>>]
    /\ sent' = [request |-> r, header |-> h, bodyOk |-> ok, ctx |-> c,
                fields |-> fs, response |-> resp]

\* The task of request r after a step that left its fields as fs
Settle(r, fs) ==
    IF AllDone(fs)
    THEN Respond(r, header[r], TRUE, ctx[r], fs, GraphQLResponse(fs))
    ELSE /\ fields' = [fields EXCEPT ![r] = fs]
         /\ UNCHANGED <<pc, header, ctx, sent>>

----------------------------------------------------------------------------
(* Actions *)

Init ==
    /\ pc = [r \in Requests |-> "idle"]
    /\ header = [r \in Requests |-> None]
    /\ ctx = [r \in Requests |-> NoCtx]
    /\ fields = [r \in Requests |-> <<>>]
    /\ sent = NoSent
    /\ started = 0
    /\ mapRow = None
    /\ mapOut = None
    /\ opaResp = NoResponse
    /\ opaOut = None

Work(body) == IF body.ok THEN Len(body.query) ELSE 1

\* Request r arrives (requests are numbered in their order of arrival): the
\* token and the GraphQL request are extracted and every `session` field of
\* the query runs up to its policy call
Call(r, h, body) ==
    /\ pc[r] = "idle"
    /\ \A q \in Requests : q < r => pc[q] # "idle"
    /\ started + Work(body) <= MaxWork
    /\ started' = started + Work(body)
    /\ LET token == ExtractToken(h)
           data == RequestData(token)
           fs == [i \in 1..Len(body.query) |->
                    SessionBegin(data, body.query[i].proposal,
                                 body.query[i].visit, i)]
       IN  IF ~body.ok
           THEN Respond(r, h, FALSE, NoCtx, <<>>, BadRequest)
           ELSE IF AllDone(fs)
           THEN Respond(r, h, TRUE, data, fs, GraphQLResponse(fs))
           ELSE /\ pc' = [pc EXCEPT ![r] = "executing"]
                /\ header' = [header EXCEPT ![r] = h]
                /\ ctx' = [ctx EXCEPT ![r] = data]
                /\ fields' = [fields EXCEPT ![r] = fs]
                /\ UNCHANGED sent
    /\ UNCHANGED <<mapRow, mapOut, opaResp, opaOut>>

\* Variant: a decision that is not Ok ends every unfinished field of the
\* request with its error
PolicyReturnAbortsSiblings(r, i, resp) ==
    /\ pc[r] = "executing"
    /\ fields[r][i].pc = "policy"
    /\ LET decided == decide(resp)
           own == SessionAfterDecide([fields[r][i] EXCEPT !.policy = Wire(resp)],
                                     decided, i)
       IN  Settle(r, [j \in DOMAIN fields[r] |->
                        IF j = i THEN own
                        ELSE IF ~decided.ok /\ fields[r][j].pc # "done"
                        THEN Failed(fields[r][j], decided.err, j)
                        ELSE fields[r][j]])
    /\ UNCHANGED <<started, mapRow, mapOut, opaResp, opaOut>>

\* The policy endpoint answers the call of field i of request r
PolicyReturn(r, i, resp) ==
    /\ pc[r] = "executing"
    /\ fields[r][i].pc = "policy"
    /\ Settle(r, [fields[r] EXCEPT ![i] =
                    SessionAfterDecide([@ EXCEPT !.policy = Wire(resp)],
                                       decide(resp), i)])
    /\ UNCHANGED <<started, mapRow, mapOut, opaResp, opaOut>>

\* The database answers the query of field i of request r
DbReturn(r, i, found) ==
    /\ pc[r] = "executing"
    /\ fields[r][i].pc = "db"
    /\ found \in DbOutcomes(fields[r][i].filter.v)
    /\ Settle(r, [fields[r] EXCEPT ![i] =
                    SessionAfterQuery([@ EXCEPT !.db = DbWire(found)], found, i)])
    /\ UNCHANGED <<started, mapRow, mapOut, opaResp, opaOut>>

\* Every result a query can have, whatever its filter
AllDbOutcomes ==
    UNION {DbOutcomes([visit |-> a.visit, proposal |-> a.proposal]) : a \in SessionArgs}

Next ==
    \/ \E r \in Requests, h \in Headers, body \in Bodies : Call(r, h, body)
    \/ \E r \in Requests, i \in 1..MaxFields, resp \in PolicyResponses :
         i <= Len(fields[r]) /\ PolicyReturn(r, i, resp)
    \/ \E r \in Requests, i \in 1..MaxFields, found \in AllDbOutcomes :
         i <= Len(fields[r]) /\ DbReturn(r, i, found)

Spec == Init /\ [][Next]_vars

----------------------------------------------------------------------------
(* The mapping of a row to the response, on its own *)

InitMap ==
    /\ pc = [r \in Requests |-> "idle"]
    /\ header = [r \in Requests |-> None]
    /\ ctx = [r \in Requests |-> NoCtx]
    /\ fields = [r \in Requests |-> <<>>]
    /\ sent = NoSent
    /\ started = 0
    /\ mapRow \in {Some(row) : row \in MapRows}
    /\ mapOut = None
    /\ opaResp = NoResponse
    /\ opaOut = None

\* Lines 110-113 and the resolution of the selection set on the Session
MapSession ==
    /\ mapRow.some
    /\ ~mapOut.some
    /\ mapOut' = Some(ResolveSessionField(
                        Ok(Some([session |-> mapRow.v.session,
                                 proposal |-> mapRow.v.proposal])), 1))
    /\ UNCHANGED <<pc, header, ctx, fields, sent, started, mapRow, opaResp, opaOut>>

NextMap == MapSession

SpecMap == InitMap /\ [][NextMap]_vars

----------------------------------------------------------------------------
(* decide on one answer of the policy endpoint, on its own *)

InitDecide ==
    /\ pc = [r \in Requests |-> "idle"]
    /\ header = [r \in Requests |-> None]
    /\ ctx = [r \in Requests |-> NoCtx]
    /\ fields = [r \in Requests |-> <<>>]
    /\ sent = NoSent
    /\ started = 0
    /\ mapRow = None
    /\ mapOut = None
    /\ opaResp \in DecideResponses
    /\ opaOut = None

\* Lines 95-109 of Query::session for one resolution: decide returns on the
\* answer, and the resolution goes on or ends
Decide ==
    /\ ~opaOut.some
    /\ LET begun == SessionBegin(RequestData(None), 12, 3, 1)
           decided == decide(opaResp)
       IN  opaOut' = Some([decided |-> decided,
                           field |-> SessionAfterDecide(begun, decided, 1)])
    /\ UNCHANGED <<pc, header, ctx, fields, sent, started, mapRow, mapOut, opaResp>>

NextDecide == Decide

SpecDecide == InitDecide /\ [][NextDecide]_vars

----------------------------------------------------------------------------
(* Properties *)

\* The tasks whose state can be observed: the requests, and the task that
\* sent the last response; `live` tells the ones that have started
Tasks ==
    [k \in 1..(NumRequests + 1) |->
       IF k <= NumRequests
       THEN [request |-> k, header |-> header[k], bodyOk |-> TRUE,
             ctx |-> ctx[k], fields |-> fields[k],
             response |-> NoSent.response, live |-> pc[k] = "executing"]
       ELSE [request |-> sent.request, header |-> sent.header,
             bodyOk |-> sent.bodyOk, ctx |-> sent.ctx, fields |-> sent.fields,
             response |-> sent.response, live |-> sent.request # 0]]

\* The error a resolver returns for field i: on the field itself, no path below
RootError(i, message) == [message |-> message, field |-> i, path |-> <<>>]

PolicyFailed(f) == f.policy \in {"sendError", "badBody"}

\* C1: a database query of a `session` resolution has been issued only if
\* the policy endpoint answered that resolution's call with allow = true;
\* never while the decision is pending, denied or failed.
C1_QueryOnlyAfterAllow ==
    \A k \in DOMAIN Tasks : \A i \in DOMAIN Tasks[k].fields :
       LET f == Tasks[k].fields[i]
       IN  (f.dbCalls > 0 \/ f.pc = "db" \/ f.filter.some \/ f.db # "none")
             => f.policy = "allowTrue"

C1_Witness ==
    \E r \in Requests : \E i \in DOMAIN fields[r] :
       /\ fields[r][i].pc = "db"
       /\ fields[r][i].dbCalls = 1
       /\ fields[r][i].policy = "allowTrue"

\* C2: when the policy endpoint answers allow = false, no database query is
\* made and the field's result is null with exactly one error, "Access
\* denied"; the response sent carries that null and that one error.
C2_DeniedNoQueryOneError ==
    \A k \in DOMAIN Tasks : \A i \in DOMAIN Tasks[k].fields :
       LET t == Tasks[k]
           f == t.fields[i]
       IN  f.policy = "allowFalse" =>
             /\ f.dbCalls = 0
             /\ f.db = "none"
             /\ f.pc = "done"
             /\ f.out.v.value.t = "null"
             /\ f.out.v.errors = {RootError(i, AccessDenied)}
             /\ t.response.status = 200 =>
                  /\ t.response.data[i].t = "null"
                  /\ {e \in t.response.errors : e.field = i}
                       = {RootError(i, AccessDenied)}

C2_Witness ==
    /\ sent.response.status = 200
    /\ \E i \in DOMAIN sent.fields : sent.fields[i].policy = "allowFalse"

\* C3: when the policy call fails in transport or its body cannot be
\* deserialized, the resolution ends before any database query, with one
\* error whose message is not the message of a denial, and differs from the
\* message of every denied resolution.
C3_FailureDistinctFromDenied ==
    \A k \in DOMAIN Tasks : \A i \in DOMAIN Tasks[k].fields :
       LET f == Tasks[k].fields[i]
       IN  PolicyFailed(f) =>
             /\ f.dbCalls = 0
             /\ f.db = "none"
             /\ f.pc = "done"
             /\ f.out.v.value.t = "null"
             /\ \E m \in {e.message : e \in f.out.v.errors} :
                  /\ f.out.v.errors = {RootError(i, m)}
                  /\ m # AccessDenied
                  /\ \A j \in DOMAIN Tasks[k].fields :
                       Tasks[k].fields[j].policy = "allowFalse" =>
                         \A e \in Tasks[k].fields[j].out.v.errors : e.message # m

C3_Witness ==
    \E i, j \in DOMAIN sent.fields :
       /\ sent.fields[i].policy = "sendError"
       /\ sent.fields[j].policy = "allowFalse"

C5_StorageErrorDetailHidden ==
    \A k, l \in DOMAIN Tasks :
      \A i \in DOMAIN Tasks[k].fields : \A j \in DOMAIN Tasks[l].fields :
         LET f == Tasks[k].fields[i]
             g == Tasks[l].fields[j]
         IN  (f.db = "error" /\ g.db = "error") =>
               {e.message : e \in f.out.v.errors} = {e.message : e \in g.out.v.errors}

\* C6: a proposal_number that does not parse as a u32 (such as "abc") gives
\* one error, on `number` of that proposal only: `number` is null, `code`
\* and the Session's own fields keep their values; an absent
\* proposal_number gives a null `number` and no error.
C6_NumberErrorScopedToField ==
    (mapOut.some /\ mapRow.v.proposal.some) =>
      LET row == mapRow.v
          p == row.proposal.v
          out == mapOut.v
          NumberError(m) ==
            [message |-> m, field |-> 1, path |-> <<"proposal", "number">>]
          Unparsed == p.proposal_number.some /\ ~ParseU32(p.proposal_number.v).ok
          SiblingsResolve ==
            /\ out.value.t = "object"
            /\ out.value.v.id.t = "int"
            /\ out.value.v.id.v = row.session.session_id
            /\ out.value.v.visit.t = "int"
            /\ row.session.visit_number.some =>
                 out.value.v.visit.v = row.session.visit_number.v
            /\ out.value.v.proposal.t = "object"
            /\ IF p.proposal_code.some
               THEN /\ out.value.v.proposal.v.code.t = "string"
                    /\ out.value.v.proposal.v.code.v = p.proposal_code.v
               ELSE out.value.v.proposal.v.code.t = "null"
      IN  /\ p.proposal_number = Some(<<"a", "b", "c">>) => out.errors # {}
          /\ Unparsed =>
               /\ SiblingsResolve
               /\ out.value.v.proposal.v.number.t = "null"
               /\ \E e \in out.errors : out.errors = {NumberError(e.message)}
          /\ ~p.proposal_number.some =>
               /\ SiblingsResolve
               /\ out.value.v.proposal.v.number.t = "null"
               /\ out.errors = {}

C6_Witness ==
    /\ mapOut.some
    /\ mapRow.v.proposal.some
    /\ mapRow.v.proposal.v.proposal_number = Some(<<"a", "b", "c">>)
    /\ mapRow.v.proposal.v.proposal_code.some
    /\ mapOut.v.errors # {}

\* C7: when the policy allows and no row matches (proposal, visit), the
\* `session` field is null and carries no error, in the resolution and in
\* the response sent.
C7_NoMatchIsNullNoError ==
    \A k \in DOMAIN Tasks : \A i \in DOMAIN Tasks[k].fields :
       LET t == Tasks[k]
           f == t.fields[i]
           NoRowMatches ==
             ~\E row \in Table :
                 Matches(row, [visit |-> f.visit, proposal |-> f.proposal])
       IN  (f.pc = "done" /\ f.policy = "allowTrue" /\ f.db # "error"
              /\ NoRowMatches) =>
             /\ f.db = "empty"
             /\ f.out.v.value.t = "null"
             /\ f.out.v.errors = {}
             /\ t.response.status = 200 =>
                  /\ t.response.data[i].t = "null"
                  /\ {e \in t.response.errors : e.field = i} = {}

C7_Witness ==
    /\ sent.response.status = 200
    /\ \E i \in DOMAIN sent.fields :
         /\ sent.fields[i].db = "empty"
         /\ sent.fields[i].policy = "allowTrue"
         /\ sent.fields[i].visit = 99

\* The Authorization header as the HTTP grammar reads it: a scheme, a
\* space, the credentials
SchemeEnd(s) ==
    IF \E i \in 1..Len(s) : s[i] = " "
    THEN CHOOSE i \in 1..Len(s) : s[i] = " " /\ \A j \in 1..(i - 1) : s[j] # " "
    ELSE Len(s) + 1

SchemeOf(s) == SubSeq(s, 1, SchemeEnd(s) - 1)

CredentialsOf(s) == SubSeq(s, SchemeEnd(s) + 1, Len(s))

\* The header names the Bearer scheme and a space follows it
BearerWithValue(h) ==
    /\ h.some
    /\ LowerSeq(SchemeOf(h.v)) = <<"b", "e", "a", "r", "e", "r">>
    /\ SchemeEnd(h.v) <= Len(h.v)

\* The header follows the grammar of bearer credentials: the scheme, a
\* space, and a non-empty b64token (which holds no space)
WellFormedBearer(h) ==
    /\ BearerWithValue(h)
    /\ Len(CredentialsOf(h.v)) > 0
    /\ \A c \in Chars(CredentialsOf(h.v)) : c \notin {" ", NonAscii}

\* The policy call of every field of task t was made, with no token, and
\* no field failed for another reason than the policy's or the database's answer
CalledWithoutToken(t) ==
    /\ Len(t.fields) > 0
    /\ t.response.status \in {0, 200}
    /\ t.ctx.hasAuth
    /\ ~t.ctx.auth.some
    /\ \A i \in DOMAIN t.fields :
         LET f == t.fields[i]
         IN  /\ f.input.some
             /\ ~f.input.v.token.some
             /\ f.policy # "none"
             /\ f.policy = "allowTrue" => f.dbCalls = 1
             /\ (f.pc = "done" /\ f.out.v.errors # {}) =>
                  (f.policy \in {"allowFalse", "sendError", "badBody"}
                     \/ f.db = "error")

\* C8: a request without an Authorization header has its policy calls made
\* with token = null; the absence itself produces no error.
C8_NoHeaderNullToken ==
    \A k \in DOMAIN Tasks :
       (Tasks[k].live /\ Tasks[k].bodyOk /\ ~Tasks[k].header.some)
         => CalledWithoutToken(Tasks[k])

C8_Witness ==
    \E r \in Requests :
       /\ pc[r] = "executing"
       /\ ~header[r].some
       /\ fields[r][1].policy = "pending"
       /\ ~fields[r][1].input.v.token.some

CarriedToken(h) ==
    IF BearerWithValue(h) THEN Some(CredentialsOf(h.v)) ELSE None

\* C10: with requests in flight together, the token of every policy
\* decision request is the bearer token (or null) of the header of the same
\* HTTP request, whatever tokens other requests carry.
C10_TokenIsOwnRequests ==
    \A k \in DOMAIN Tasks : \A i \in DOMAIN Tasks[k].fields :
       LET f == Tasks[k].fields[i]
           own == CarriedToken(Tasks[k].header)
       IN  /\ f.input.some
           /\ f.input.v.token.some = own.some
           /\ own.some => f.input.v.token.v = own.v

C10_Witness ==
    \E r, q \in Requests :
       /\ pc[r] = "executing" /\ pc[q] = "executing"
       /\ fields[r][1].input.v.token.some
       /\ fields[q][1].input.v.token.some
       /\ fields[r][1].input.v.token.v # fields[q][1].input.v.token.v
       /\ fields[r][1].pc = "db" /\ fields[q][1].pc = "policy"

\* The policy's answer to the call of field f has arrived
Answered(f) == f.policy \in {"allowTrue", "allowFalse", "sendError", "badBody"}

\* C11: every `session` resolution that reached decide has made exactly one
\* policy call, its own; the answer to that call, whatever it is, ends the
\* wait (no second call) and alone decides the resolution: of two
\* resolutions with the same token and arguments, one answered allow and one
\* answered deny, the first goes to the database and the second is denied.
C11_OnePolicyCallPerResolution ==
    \A k \in DOMAIN Tasks : \A i \in DOMAIN Tasks[k].fields :
       LET f == Tasks[k].fields[i]
       IN  /\ f.opaCalls = (IF f.input.some THEN 1 ELSE 0)
           /\ f.pc = "policy" => (f.opaCalls = 1 /\ f.policy = "pending")
           /\ Answered(f) =>
                /\ f.opaCalls = 1
                /\ f.pc # "policy"
                /\ f.dbCalls = (IF f.policy = "allowTrue" THEN 1 ELSE 0)
           /\ \A l \in DOMAIN Tasks : \A j \in DOMAIN Tasks[l].fields :
                LET g == Tasks[l].fields[j]
                IN  (f.input = g.input /\ f.policy = "allowTrue"
                       /\ g.policy = "allowFalse") =>
                      /\ f.dbCalls = 1
                      /\ g.dbCalls = 0
                      /\ g.out.v.errors = {RootError(j, AccessDenied)}

\* The first of two identical queries was denied and answered; the second,
\* sent with the same header and arguments, was allowed by its own call
C11_Witness ==
    /\ sent.request = 1
    /\ Len(sent.fields) = 1
    /\ sent.fields[1].policy = "allowFalse"
    /\ sent.fields[1].opaCalls = 1
    /\ pc[2] = "executing"
    /\ Len(fields[2]) = 1
    /\ header[2] = sent.header
    /\ fields[2][1].input = sent.fields[1].input
    /\ fields[2][1].opaCalls = 1
    /\ fields[2][1].policy = "allowTrue"
    /\ fields[2][1].pc = "db"

\* C12: in every `session` resolution, the (proposal, visit) pair of the
\* database filter is the pair sent as `parameters` of the policy decision
\* request of the same resolution, which is the pair of the field's
\* arguments; a row is fetched only under that filter.
C12_FilterPairIsApprovedPair ==
    \A k \in DOMAIN Tasks : \A i \in DOMAIN Tasks[k].fields :
       LET f == Tasks[k].fields[i]
       IN  /\ f.input.some =>
                /\ f.input.v.parameters.proposal = f.proposal
                /\ f.input.v.parameters.visit = f.visit
           /\ f.filter.some =>
                /\ f.input.some
                /\ f.policy = "allowTrue"
                /\ f.filter.v.proposal = f.input.v.parameters.proposal
                /\ f.filter.v.visit = f.input.v.parameters.visit
           /\ f.db # "none" => f.filter.some
           /\ f.db = "row" =>
                \E row \in Table :
                   Matches(row, [visit |-> f.input.v.parameters.visit,
                                 proposal |-> f.input.v.parameters.proposal])

\* Two resolutions with different pairs are past their approvals, each with
\* the filter of its own pair, and one has fetched its row
C12_Witness ==
    /\ Len(sent.fields) = 2
    /\ sent.fields[1].filter.some
    /\ sent.fields[2].filter.some
    /\ sent.fields[1].filter.v # sent.fields[2].filter.v
    /\ sent.fields[1].db = "row"
    /\ sent.fields[1].input.v.parameters = [proposal |-> 12, visit |-> 3]

\* C13: what decide returns depends on the body of the answer only, not on
\* its status: it is Ok, and the resolution goes on to the database, iff an
\* answer came and its body deserializes with allow = true; it is "Access
\* denied" iff the body deserializes with allow = false; it is another
\* error when no answer came or the body does not deserialize.
C13_BodyDecidesNotStatus ==
    opaOut.some =>
      LET decided == opaOut.v.decided
          wire == Wire(opaResp)
      IN  /\ decided.ok <=> wire = "allowTrue"
          /\ decided.ok <=> opaOut.v.field.pc = "db"
          /\ decided.ok <=> opaOut.v.field.dbCalls = 1
          /\ (~decided.ok /\ decided.err = AccessDenied) <=> wire = "allowFalse"
          /\ wire \in {"sendError", "badBody"} =>
               (~decided.ok /\ decided.err # AccessDenied)
          /\ opaResp.kind = "response" =>
               \A st \in Statuses :
                  decide([opaResp EXCEPT !.status = st]) = decided

\* An answer with status 500 and the body {allow: true} was decided: access
\* goes on
C13_Witness ==
    /\ opaOut.some
    /\ opaResp.kind = "response"
    /\ opaResp.status = 500
    /\ opaResp.body = JObj([allow |-> JBool(TRUE)])
    /\ opaOut.v.decided.ok
    /\ opaOut.v.field.pc = "db"

\* C14: in a request with several `session` fields every field makes its
\* own policy call and, when that call allowed, its own database query: a
\* field queries the database iff its own call was answered allow, whatever
\* its siblings' answers; a field ends only on the answer to its own call or
\* query; a denial or policy failure gives one error, on that field, and the
\* response keeps each sibling's own value and errors.
C14_FieldsDecidedOnTheirOwn ==
    \A k \in DOMAIN Tasks : \A i \in DOMAIN Tasks[k].fields :
       LET t == Tasks[k]
           f == t.fields[i]
       IN  /\ f.input.some /\ f.opaCalls = 1
           /\ f.input.v.parameters = [proposal |-> f.proposal, visit |-> f.visit]
           /\ f.dbCalls = (IF f.policy = "allowTrue" THEN 1 ELSE 0)
           /\ f.filter.some <=> f.policy = "allowTrue"
           /\ f.pc = "done" =>
                /\ Answered(f)
                /\ f.policy = "allowTrue" => f.db # "none"
           /\ (f.policy = "allowFalse" \/ PolicyFailed(f)) =>
                /\ f.pc = "done"
                /\ \E e \in f.out.v.errors : f.out.v.errors = {e}
                /\ \A e \in f.out.v.errors : e.field = i
           /\ t.response.status = 200 =>
                /\ Len(t.response.data) = Len(t.fields)
                /\ t.response.data[i] = f.out.v.value
                /\ {e \in t.response.errors : e.field = i} = f.out.v.errors
                /\ f.db = "row" => t.response.data[i].t = "object"

\* One request with two fields of different arguments: the first was
\* denied, the second was allowed and fetched its row; the response has
\* null and one error for the first, the session for the second
C14_Witness ==
    /\ sent.response.status = 200
    /\ Len(sent.fields) = 2
    /\ sent.fields[1].proposal # sent.fields[2].proposal
    /\ sent.fields[1].policy = "allowFalse"
    /\ sent.fields[1].dbCalls = 0
    /\ sent.fields[2].policy = "allowTrue"
    /\ sent.fields[2].dbCalls = 1
    /\ sent.fields[2].db = "row"
    /\ sent.response.data[1].t = "null"
    /\ sent.response.data[2].t = "object"
    /\ sent.response.errors = {RootError(1, AccessDenied)}

====
